---- MODULE Spec2Model ----
(***************************************************************************)
(* A model of app.py: the per-frame handler yolo_detect, the chart         *)
(* renderer generate_stats_chart, the reset handler reset_stats and the    *)
(* Gradio wiring that threads one gr.State value per browser session       *)
(* through them, with the module-level _frame_counter shared by all of     *)
(* them.                                                                   *)
(*                                                                         *)
(* Python values are modelled as records with a "kind" field, so that a    *)
(* None, an image, a chart and a state dict can be compared.  A Counter    *)
(* is an insertion-ordered dict: a sequence of <<label, count>> pairs      *)
(* with distinct labels.                                                   *)
(***************************************************************************)
EXTENDS Integers, Sequences, FiniteSets, Bags, TLC

\* ------------------------------------------------------------------ bounds
\* yolo_detect is not called with a detected frame once _frame_counter has
\* reached MaxFrames (Spec, SpecCall).
MaxFrames == 5
\* Frames fed to one session in the end-to-end scenario (SpecDog).
DogFrames == 11
\* The largest number of categories of a tally handed to generate_stats_chart
\* on its own, and the largest number of frames streamed in two orders.
MaxCategories == 12
MaxPermuted == 3

\* ------------------------------------------------------- program constants
_chart_update_interval == 5
\* sorted(...)[:10] in generate_stats_chart
TopN == 10

Sessions == {"s1", "s2"}
Labels == {"dog", "person"}

\* ------------------------------------------------------------ Python values
None == [kind |-> "None"]

\* Counter(): the empty tally.
Counter == << >>

\* counter[label] read with the implicit zero default.
RECURSIVE Get(_, _)
Get(counter, label) ==
    IF counter = << >> THEN 0
    ELSE IF Head(counter)[1] = label THEN Head(counter)[2]
    ELSE Get(Tail(counter), label)

HasKey(counter, label) == \E i \in 1..Len(counter) : counter[i][1] = label

\* counter[label] += n: an existing key keeps its place, a new key is appended.
Add(counter, label, n) ==
    IF HasKey(counter, label)
    THEN [i \in 1..Len(counter) |->
            IF counter[i][1] = label THEN <<label, counter[i][2] + n>> ELSE counter[i]]
    ELSE Append(counter, <<label, n>>)

\* A frame as Gradio delivers it: pixels, channel order, and what has been
\* drawn on it.  channels = 3 is an H x W x 3 array; any other shape makes
\* cv2.cvtColor raise.
Image(px, ch) == [kind |-> "image", pixels |-> px, channels |-> ch,
                  order |-> "RGB", drawn |-> << >>]
GoodFrame == Image("f", 3)
BadFrame == Image("g", 1)

\* A detected box: its class label, and whether reading its fields raises.
Box(label, malformed) == [label |-> label, malformed |-> malformed]

\* ------------------------------------------------------------ cv2 helpers
\* cv2.cvtColor(img, COLOR_RGB2BGR / COLOR_BGR2RGB): both swap the first and
\* third channel and return a new array.
CanConvert(img) == img.channels = 3
cvtColor(img) == [img EXCEPT !.order = IF @ = "RGB" THEN "BGR" ELSE "RGB"]

\* cv2.rectangle + cv2.putText on img, in place.
Draw(img, label) == [img EXCEPT !.drawn = Append(@, label)]

\* --------------------------------------------------- Python truthiness
IsArray(v) == v.kind \in {"image", "chart", "chart_error"}

\* `not v` for the values last_chart can hold: None is falsy; a numpy array
\* with more than one element has no truth value and bool() raises ValueError.
Not(v) ==
    IF v = None THEN "True"
    ELSE IF IsArray(v) THEN "ValueError"
    ELSE "False"

\* The gr.State value built at lines 122-126, 308-312 and 330-334.
EmptyState == [kind |-> "state", current |-> Counter, total |-> Counter,
               last_chart |-> None]

\* Accessors that read an absent state as an empty one.
TotalOf(st) == IF st = None THEN Counter ELSE st.total
CurrentOf(st) == IF st = None THEN Counter ELSE st.current
CachedChart(st) == IF st = None THEN None ELSE st.last_chart

\* ------------------------------------------------ generate_stats_chart
\* sum(total_count.values())
RECURSIVE SumValues(_)
SumValues(counter) ==
    IF counter = << >> THEN 0 ELSE Head(counter)[2] + SumValues(Tail(counter))

\* sorted(total_count.items(), key=lambda x: -x[1]): a stable sort, so equal
\* counts keep their insertion order.
InsertDescUnstable(sorted, item) ==
    LET k == Cardinality({i \in 1..Len(sorted) : sorted[i][2] > item[2]})
    IN  SubSeq(sorted, 1, k) \o <<item>> \o SubSeq(sorted, k + 1, Len(sorted))

InsertDesc(sorted, item) ==
    LET k == Cardinality({i \in 1..Len(sorted) : sorted[i][2] >= item[2]})
    IN  SubSeq(sorted, 1, k) \o <<item>> \o SubSeq(sorted, k + 1, Len(sorted))

RECURSIVE SortedItems(_)
SortedItems(items) ==
    IF items = << >> THEN << >>
    ELSE InsertDesc(SortedItems(SubSeq(items, 1, Len(items) - 1)), items[Len(items)])

\* seq[:n]
Take(seq, n) == SubSeq(seq, 1, IF Len(seq) < n THEN Len(seq) ELSE n)

\* The image generate_stats_chart draws when nothing fails: the left panel
\* holds the current frame's bars in key order, or the "no detection" text;
\* the right panel holds the TopN highest cumulative bars and, in its title,
\* the sum over all categories, or the "no data" text.
RenderedChart(current_count, total_count) ==
    [kind  |-> "chart",
     left  |-> IF current_count # << >>
               THEN [placeholder |-> FALSE, bars |-> current_count]
               ELSE [placeholder |-> TRUE, bars |-> << >>],
     right |-> IF total_count # << >>
               THEN [placeholder |-> FALSE,
                     bars |-> Take(SortedItems(total_count), TopN),
                     total |-> SumValues(total_count)]
               ELSE [placeholder |-> TRUE, bars |-> << >>, total |-> 0]]

\* The white "Chart Error" image of the except branch.
ChartError == [kind |-> "chart_error"]

\* What the drawing calls of one invocation do.
RenderOutcomes == {"ok", "draw_raises", "placeholder_raises"}

\* generate_stats_chart(current_count, total_count).  rnd is what the
\* matplotlib / cv2 calls do this time: "ok"; "draw_raises", caught by the
\* function's own except, which returns the placeholder; or
\* "placeholder_raises", where building the placeholder raises too and the
\* exception leaves the function.
generate_stats_chart(current_count, total_count, rnd) ==
    IF rnd = "ok"
    THEN [raised |-> FALSE, value |-> RenderedChart(current_count, total_count)]
    ELSE IF rnd = "draw_raises"
    THEN [raised |-> FALSE, value |-> ChartError]
    ELSE [raised |-> TRUE, value |-> None]

\* ------------------------------------------------------------ yolo_detect
\* What model(img, conf=0.4) does on one frame: it raises, or it returns
\* results whose boxes are None or a list of boxes.
DetectorRaises == [kind |-> "raises", has_boxes |-> FALSE, boxes |-> << >>]
Results(boxes) == [kind |-> "results", has_boxes |-> TRUE, boxes |-> boxes]
ResultsNoBoxes == [kind |-> "results", has_boxes |-> FALSE, boxes |-> << >>]

\* The for loop over results.boxes: a box whose fields cannot be read raises
\* before anything is drawn or counted, and the loop continues.
RECURSIVE BoxLoopBreaks(_, _, _)
BoxLoopBreaks(boxes, img, current_frame_count) ==
    IF boxes = << >> THEN [img |-> img, count |-> current_frame_count]
    ELSE LET box == Head(boxes)
         IN  IF box.malformed
             THEN [img |-> img, count |-> current_frame_count]
             ELSE BoxLoopBreaks(Tail(boxes), Draw(img, box.label),
                                Add(current_frame_count, box.label, 1))

RECURSIVE BoxLoop(_, _, _)
BoxLoop(boxes, img, current_frame_count) ==
    IF boxes = << >> THEN [img |-> img, count |-> current_frame_count]
    ELSE LET box == Head(boxes)
         IN  IF box.malformed
             THEN BoxLoop(Tail(boxes), img, current_frame_count)
             ELSE BoxLoop(Tail(boxes), Draw(img, box.label),
                          Add(current_frame_count, box.label, 1))

\* for label, count in current_frame_count.items(): total[label] += count
RECURSIVE MergeReplace(_, _)
MergeReplace(total, current_frame_count) ==
    IF current_frame_count = << >> THEN total
    ELSE LET item == Head(current_frame_count)
         IN  MergeReplace(Add(total, item[1], item[2] - Get(total, item[1])),
                          Tail(current_frame_count))

MergeAssign(total, current_frame_count) == current_frame_count

RECURSIVE Merge(_, _)
Merge(total, current_frame_count) ==
    IF current_frame_count = << >> THEN total
    ELSE LET item == Head(current_frame_count)
         IN  Merge(Add(total, item[1], item[2]), Tail(current_frame_count))

\* What one call returns or raises, with the new value of _frame_counter, the
\* number of generate_stats_chart invocations it made and the return
\* statement it left through.
Return(path, frame, chart, state, fc, renders) ==
    [raised |-> FALSE, path |-> path, frame |-> frame, chart |-> chart,
     state |-> state, counter |-> fc, renders |-> renders]
Raise(path, state, fc, renders) ==
    [raised |-> TRUE, path |-> path, frame |-> None, chart |-> None,
     state |-> state, counter |-> fc, renders |-> renders]

\* frame is None: return None, stats_state, stats_state
AbsentFrameClearsCurrent(stats_state, fc) ==
    Return("absent", None, stats_state,
           IF stats_state = None THEN EmptyState
           ELSE [stats_state EXCEPT !.current = Counter], fc, 0)

AbsentFrame(stats_state, fc) ==
    Return("absent", None, stats_state, stats_state, fc, 0)

\* The outer except: the original frame and the cached chart.
TopLevelPropagates(frame, stats_state, fc, renders) ==
    Raise("except", stats_state, fc, renders)

TopLevelExcept(frame, stats_state, fc, renders) ==
    Return("except", frame,
           IF stats_state # None THEN stats_state.last_chart ELSE None,
           stats_state, fc, renders)

\* The except around the detector call: the frame converted back, and
\* stats_state.get('last_chart', frame), whose key is always present.
DetectionFailedAdvances(img, stats_state, fc) ==
    Return("detect_except", cvtColor(img), stats_state.last_chart,
           [stats_state EXCEPT !.current = Counter], fc + 1, 0)

DetectionFailed(img, stats_state, fc) ==
    Return("detect_except", cvtColor(img), stats_state.last_chart, stats_state, fc, 0)

\* The except around the generate_stats_chart call:
\* stats_state.get('last_chart', result_img), whose key is always present.
RenderFailedClearsCache(result_img, stats_state, fc) ==
    Return("render_except", result_img, None,
           [stats_state EXCEPT !.last_chart = None], fc, 1)

RenderFailed(result_img, stats_state, fc) ==
    Return("render_except", result_img, stats_state.last_chart, stats_state, fc, 1)

\* _frame_counter % _chart_update_interval == 0 or not last_chart, with the
\* short circuit of `or`: "True", "False" or "ValueError".
ChartDueIntervalOnly(fc, last_chart) ==
    IF fc % _chart_update_interval = 0 THEN "True" ELSE "False"

ChartDueAlways(fc, last_chart) == "True"

ChartDueCacheOnly(fc, last_chart) == Not(last_chart)

ChartDue(fc, last_chart) ==
    IF fc % _chart_update_interval = 0 THEN "True" ELSE Not(last_chart)

\* yolo_detect(frame, stats_state) with _frame_counter = fc, on a frame for
\* which the detector does det and the chart drawing calls do rnd.
yolo_detect(frame, stats_state, fc, det, rnd) ==
    IF frame = None THEN AbsentFrame(stats_state, fc)
    ELSE
    LET st0 == IF stats_state = None THEN EmptyState ELSE stats_state
    IN
    IF ~CanConvert(frame) THEN TopLevelExcept(frame, st0, fc, 0)
    ELSE
    LET img == cvtColor(frame)
    IN
    IF det.kind = "raises" THEN DetectionFailed(img, st0, fc)
    ELSE
    LET loop == BoxLoop(IF det.has_boxes THEN det.boxes ELSE << >>, img, Counter)
        current_frame_count == loop.count
        st1 == [st0 EXCEPT !.total = Merge(@, current_frame_count),
                           !.current = current_frame_count]
        result_img == cvtColor(loop.img)
        fc1 == fc + 1
        due == ChartDue(fc1, st1.last_chart)
    IN
    IF due = "ValueError" THEN TopLevelExcept(frame, st1, fc1, 0)
    ELSE IF due = "True"
    THEN LET g == generate_stats_chart(current_frame_count, st1.total, rnd)
         IN  IF g.raised
             THEN RenderFailed(result_img, st1, fc1)
             ELSE Return("rendered", result_img, g.value,
                         [st1 EXCEPT !.last_chart = g.value], fc1, 1)
    ELSE Return("cached", result_img, st1.last_chart, st1, fc1, 0)

\* ------------------------------------------------------------ reset_stats
\* What reset_stats returns, or that it raises.
ResetReturn(state, chart) == [raised |-> FALSE, state |-> state, chart |-> chart]

reset_stats_uncached(rnd) ==
    LET g == generate_stats_chart(Counter, Counter, rnd)
    IN  ResetReturn(EmptyState, IF g.raised THEN None ELSE g.value)

reset_stats_propagates(rnd) ==
    LET g == generate_stats_chart(Counter, Counter, rnd)
    IN  IF g.raised
        THEN [raised |-> TRUE, state |-> EmptyState, chart |-> None]
        ELSE ResetReturn([EmptyState EXCEPT !.last_chart = g.value], g.value)

reset_stats(rnd) ==
    LET g == generate_stats_chart(Counter, Counter, rnd)
    IN  IF g.raised
        THEN ResetReturn(EmptyState, None)
        ELSE ResetReturn([EmptyState EXCEPT !.last_chart = g.value], g.value)

\* ------------------------------------------------------------------ state
VARIABLES
    _frame_counter,  \* the module-level counter, one for the whole process
    stats_state,     \* the gr.State value of each session
    call,            \* the last handler invocation: its inputs, the state it
                     \* found, what it returned to the session's components
    tallies,         \* per session, the bag of frame tallies produced since
                     \* the session's state was created or last reset
    fed,             \* per session, the number of frames whose detection
                     \* succeeded since the state was created or last reset
    rendered_on,     \* per session, the ones of those frames (1 = the first)
                     \* that invoked generate_stats_chart
    alone            \* per session, the same handler calls replayed in a process
                     \* that serves no other session: its state, its counter,
                     \* the frames it rendered on and the value of its counter
                     \* at its last generate_stats_chart call from yolo_detect

vars == <<_frame_counter, stats_state, call, tallies, fed, rendered_on, alone>>

\* Spec drives the sessions of Driven with every frame, detector and drawing
\* outcome; the other sessions stream well-detected frames, which advance
\* the shared _frame_counter between the calls of the driven ones.
Driven == {"s1"}

NoReturn == [raised |-> FALSE, path |-> "none", frame |-> None, chart |-> None,
             renders |-> 0]

NoCall == [fn |-> "none", session |-> "none", frame |-> None, det |-> ResultsNoBoxes,
           rnd |-> "none", pre |-> None, pre_counter |-> 0,
           ret |-> NoReturn, alone_ret |-> NoReturn]

InitWith(states) ==
    /\ _frame_counter = 0
    /\ stats_state \in {f \in [Sessions -> states] :
                           \A s \in Sessions \ Driven : f[s] = EmptyState}
    /\ call = NoCall
    /\ tallies = [s \in Sessions |-> EmptyBag]
    /\ fed = [s \in Sessions |-> 0]
    /\ rendered_on = [s \in Sessions |-> {}]
    /\ alone = [s \in Sessions |->
                  [state |-> stats_state[s], counter |-> 0, rendered_on |-> {},
                   last_render |-> 0]]

\* The Blocks of lines 325-374: every session starts from a copy of the
\* gr.State value.
Init == InitWith({EmptyState})

\* yolo_detect called directly, also by a caller that threads no state yet
\* for a driven session.
InitCall == InitWith({EmptyState, None})

\* Whether a call got past the detector: the frame is present, converts and
\* the detector returns.
Detected(frame, det) == frame # None /\ CanConvert(frame) /\ det.kind = "results"

\* What a call hands to the outputs: the first two return values.
Returned(r) == [raised |-> r.raised, path |-> r.path, frame |-> r.frame,
                chart |-> r.chart, renders |-> r.renders]

\* webcam.stream(fn=yolo_detect, inputs=[webcam, stats_state],
\*               outputs=[output, stats_display, stats_state])
Stream(s, frame, det, rnd) ==
    LET r == yolo_detect(frame, stats_state[s], _frame_counter, det, rnd)
        a == yolo_detect(frame, alone[s].state, alone[s].counter, det, rnd)
        ok == Detected(frame, det)
    IN  /\ _frame_counter' = r.counter
        /\ stats_state' = [stats_state EXCEPT ![s] =
                              IF r.raised /\ stats_state[s] = None THEN None ELSE r.state]
        /\ call' = [fn |-> "yolo_detect", session |-> s, frame |-> frame, det |-> det,
                    rnd |-> IF r.renders > 0 THEN rnd ELSE "none",
                    pre |-> stats_state[s], pre_counter |-> _frame_counter,
                    ret |-> Returned(r), alone_ret |-> Returned(a)]
        /\ tallies' = [tallies EXCEPT ![s] =
                          IF ok THEN @ (+) SetToBag({CurrentOf(r.state)}) ELSE @]
        /\ fed' = [fed EXCEPT ![s] = IF ok THEN @ + 1 ELSE @]
        /\ rendered_on' = [rendered_on EXCEPT ![s] =
                              IF r.renders > 0 THEN @ \cup {fed'[s]} ELSE @]
        /\ alone' = [alone EXCEPT ![s] =
                        [state |-> a.state, counter |-> a.counter,
                         rendered_on |-> IF a.renders > 0
                                         THEN @.rendered_on \cup {fed'[s]}
                                         ELSE @.rendered_on,
                         last_render |-> IF a.renders > 0
                                         THEN a.counter ELSE @.last_render]]

\* reset_btn.click(fn=reset_stats, outputs=[stats_state, stats_display])
ClickKeepsState(s, rnd) ==
    LET r == reset_stats(rnd)
        ret == [raised |-> r.raised, path |-> "reset", frame |-> None,
                chart |-> r.chart, renders |-> 1]
    IN  /\ call' = [fn |-> "reset_stats", session |-> s, frame |-> None,
                    det |-> ResultsNoBoxes, rnd |-> rnd, pre |-> stats_state[s],
                    pre_counter |-> _frame_counter, ret |-> ret, alone_ret |-> ret]
        /\ UNCHANGED <<_frame_counter, stats_state, tallies, fed, rendered_on, alone>>

Click(s, rnd) ==
    LET r == reset_stats(rnd)
        ret == [raised |-> r.raised, path |-> "reset", frame |-> None,
                chart |-> r.chart, renders |-> 1]
    IN  /\ stats_state' = [stats_state EXCEPT ![s] = IF r.raised THEN @ ELSE r.state]
        /\ call' = [fn |-> "reset_stats", session |-> s, frame |-> None,
                    det |-> ResultsNoBoxes, rnd |-> rnd, pre |-> stats_state[s],
                    pre_counter |-> _frame_counter, ret |-> ret, alone_ret |-> ret]
        /\ tallies' = [tallies EXCEPT ![s] = IF r.raised THEN @ ELSE EmptyBag]
        /\ fed' = [fed EXCEPT ![s] = IF r.raised THEN @ ELSE 0]
        /\ rendered_on' = [rendered_on EXCEPT ![s] = IF r.raised THEN @ ELSE {}]
        /\ alone' = [alone EXCEPT ![s].state = IF r.raised THEN @ ELSE r.state,
                                  ![s].rendered_on = IF r.raised THEN @ ELSE {}]
        /\ UNCHANGED _frame_counter

\* ------------------------------------------------------------ environment
\* What the detector returns in the model: no boxes, one box, and a list
\* with two categories, a repeated category and a box that cannot be read.
DogBox == <<Box("dog", FALSE)>>
MixedBoxes == <<Box("person", FALSE), Box("dog", TRUE), Box("person", FALSE),
                Box("dog", FALSE)>>
Detections == {ResultsNoBoxes, Results(DogBox), Results(MixedBoxes)}

AbsentFrameArrives == \E s \in Driven : Stream(s, None, ResultsNoBoxes, "ok")

BadFrameArrives == \E s \in Driven : Stream(s, BadFrame, ResultsNoBoxes, "ok")

DetectorFails == \E s \in Driven : Stream(s, GoodFrame, DetectorRaises, "ok")

FrameDetected ==
    /\ _frame_counter < MaxFrames
    /\ \E s \in Driven, det \in Detections, rnd \in RenderOutcomes :
          Stream(s, GoodFrame, det, rnd)

OtherSessionStreams ==
    /\ _frame_counter < MaxFrames
    /\ \E s \in Sessions \ Driven : Stream(s, GoodFrame, Results(DogBox), "ok")

ResetClicked == \E s \in Driven, rnd \in RenderOutcomes : Click(s, rnd)

Next == AbsentFrameArrives \/ BadFrameArrives \/ DetectorFails \/ FrameDetected
        \/ OtherSessionStreams \/ ResetClicked

Spec == Init /\ [][Next]_vars

SpecCall == InitCall /\ [][Next]_vars

\* The end-to-end scenario: every session streams frames that are detected
\* with exactly one "dog", and every chart drawing succeeds; no reset.
DogFrameDetected ==
    \E s \in Sessions :
        /\ fed[s] < DogFrames
        /\ Stream(s, GoodFrame, Results(DogBox), "ok")

SpecDog == Init /\ [][DogFrameDetected]_vars

\* generate_stats_chart and the merge of yolo_detect on their own.
\* Class names of the detector (model.names), in the order a tally first
\* sees them, and the counts a category has in a tally.
CategoryNames == <<"person", "bicycle", "car", "motorcycle", "airplane", "bus",
                   "train", "truck", "boat", "bench", "bird", "cat", "dog",
                   "horse">>
CategoryCounts == {1, 2}

\* The Counters with n categories.
Tallies(n) ==
    {[i \in 1..n |-> <<CategoryNames[i], c[i]>>] : c \in [1..n -> CategoryCounts]}

\* generate_stats_chart(Counter(), total_count) called with a tally of up to
\* MaxCategories categories; the call record keeps the tally and the image.
ChartRendered ==
    /\ call = NoCall
    /\ \E n \in 0..MaxCategories : \E total_count \in Tallies(n) :
          LET g == generate_stats_chart(Counter, total_count, "ok")
          IN  call' = [NoCall EXCEPT
                         !.fn = "generate_stats_chart",
                         !.rnd = "ok",
                         !.pre = [EmptyState EXCEPT !.total = total_count],
                         !.ret = [raised |-> g.raised, path |-> "chart", frame |-> None,
                                  chart |-> g.value, renders |-> 1]]
    /\ UNCHANGED <<_frame_counter, stats_state, tallies, fed, rendered_on, alone>>

\* The states frames are streamed from, and what the detector returns on
\* them: the results of the environment and a frame with two dogs.
StartStates == {EmptyState, [EmptyState EXCEPT !.total = <<<<"person", 1>>>>]}
TwoDogs == <<Box("dog", FALSE), Box("dog", FALSE)>>
StreamedDetections == Detections \cup {Results(TwoDogs)}

\* The state after yolo_detect has processed the frames of dets in order,
\* every chart drawing succeeding.
RECURSIVE RunFrames(_, _, _)
RunFrames(state, fc, dets) ==
    IF dets = << >> THEN state
    ELSE LET r == yolo_detect(GoodFrame, state, fc, Head(dets), "ok")
         IN  RunFrames(r.state, r.counter, Tail(dets))

Orders(n) ==
    {p \in [1..n -> 1..n] : \A i, j \in 1..n : i # j => p[i] # p[j]}

\* Up to MaxPermuted detected frames streamed to one session from the same
\* state in two orders; the call record keeps the frames, the order and the
\* two final states.
FramesPermuted ==
    /\ call = NoCall
    /\ \E n \in 0..MaxPermuted, start \in StartStates :
       \E dets \in [1..n -> StreamedDetections], order \in Orders(n) :
          call' = [fn |-> "stream", session |-> "s1", pre |-> start,
                   frames |-> dets, order |-> order,
                   in_order |-> RunFrames(start, _frame_counter, dets),
                   permuted |-> RunFrames(start, _frame_counter,
                                          [i \in 1..n |-> dets[order[i]]])]
    /\ UNCHANGED <<_frame_counter, stats_state, tallies, fed, rendered_on, alone>>

NextPure == ChartRendered \/ FramesPermuted

SpecPure == Init /\ [][NextPure]_vars

\* ----------------------------------------------------------------- claims
\* The session of the last call and what the claims read of it.
IsDetect == call.fn = "yolo_detect"
IsReset == call.fn = "reset_stats"
Post == stats_state[call.session]
CallDetected == IsDetect /\ Detected(call.frame, call.det)
CallDetectorFailed ==
    IsDetect /\ call.frame # None /\ CanConvert(call.frame) /\ call.det.kind = "raises"
CallAbsent == IsDetect /\ call.frame = None

\* The sum over a bag of frame tallies of their counts of one label.
RECURSIVE SumOver(_, _, _)
SumOver(set, bag, label) ==
    IF set = {} THEN 0
    ELSE LET t == CHOOSE x \in set : TRUE
         IN  CopiesIn(t, bag) * Get(t, label) + SumOver(set \ {t}, bag, label)

FramesSum(bag, label) == SumOver(BagToSet(bag), bag, label)

\* C1: in every session, the cumulative tally equals, label by label, the
\* sum of the frame tallies produced since the state was created or last
\* reset; absent frames and frames whose detection fails add nothing.
C1_TotalIsSumOfFrameTallies ==
    \A s \in Sessions :
        /\ \A l \in Labels :
              Get(TotalOf(stats_state[s]), l) = FramesSum(tallies[s], l)
        /\ \A i \in 1..Len(TotalOf(stats_state[s])) :
              TotalOf(stats_state[s])[i][1] \in Labels

\* Two merged frames with two categories each, then a frame whose detection
\* fails.
C1_Witness ==
    /\ CallDetectorFailed
    /\ BagCardinality(tallies[call.session]) >= 3
    /\ Get(TotalOf(Post), "person") = 4
    /\ Get(TotalOf(Post), "dog") = 3

\* Whether the throttle asks for a render on a call: the advanced counter is
\* a multiple of the interval, or the state the call found caches no chart.
RenderDue == \/ (call.pre_counter + 1) % _chart_update_interval = 0
             \/ CachedChart(call.pre) = None

\* C2: yolo_detect invokes generate_stats_chart exactly on the detected
\* frames where the advanced counter is a multiple of 5 or no chart is
\* cached; on every other detected frame it returns the cached chart and
\* leaves the cache as it was.
C2_RenderExactlyWhenDue ==
    IsDetect =>
        /\ CallDetected => _frame_counter = call.pre_counter + 1
        /\ call.ret.renders = (IF CallDetected /\ RenderDue THEN 1 ELSE 0)
        /\ (CallDetected /\ ~RenderDue) =>
              /\ call.ret.chart = CachedChart(call.pre)
              /\ CachedChart(Post) = CachedChart(call.pre)

\* A render forced by the interval although a chart is cached.
C2_Witness ==
    /\ CallDetected
    /\ call.ret.renders = 1
    /\ CachedChart(call.pre) # None
    /\ _frame_counter = _chart_update_interval

\* C3: with an absent frame, the first output is absent and the chart
\* output is the cached chart of the state.
C3_AbsentFrameReturnsCachedChart ==
    CallAbsent =>
        /\ call.ret.frame = None
        /\ call.ret.chart = CachedChart(call.pre)

\* C4: a call with an absent frame returns the state it was given, does not
\* advance _frame_counter and does not raise.
C4_AbsentFrameChangesNothing ==
    CallAbsent =>
        /\ Post = call.pre
        /\ _frame_counter = call.pre_counter
        /\ ~call.ret.raised

\* An absent frame on a session that has tallies, a cached chart and an
\* advanced counter.
C4_Witness ==
    /\ CallAbsent
    /\ CurrentOf(call.pre) # Counter
    /\ TotalOf(call.pre) # Counter
    /\ CachedChart(call.pre) # None
    /\ call.pre_counter > 0

\* C5: when the detector raises, yolo_detect returns the frame as it came
\* (nothing drawn, RGB) and the cached chart, and the tallies, the cached
\* chart and _frame_counter are what they were.
C5_DetectorFailureIsolated ==
    CallDetectorFailed =>
        /\ ~call.ret.raised
        /\ call.ret.frame = call.frame
        /\ call.ret.chart = CachedChart(call.pre)
        /\ TotalOf(Post) = TotalOf(call.pre)
        /\ CurrentOf(Post) = CurrentOf(call.pre)
        /\ CachedChart(Post) = CachedChart(call.pre)
        /\ _frame_counter = call.pre_counter

\* The detector raises on a session that has tallies and a cached chart.
C5_Witness ==
    /\ CallDetectorFailed
    /\ CurrentOf(call.pre) # Counter
    /\ CachedChart(call.pre) # None
    /\ call.pre_counter > 0

\* The input frame with a box and a label drawn for every box that can be
\* read, in the detector's order.
AnnotatedFrame(frame, det) ==
    LET good == SelectSeq(det.boxes, LAMBDA b : ~b.malformed)
    IN  [frame EXCEPT !.drawn = [i \in 1..Len(good) |-> good[i].label]]

\* A failure raised inside the last call: by the colour conversion, the
\* detector, the reading of a box, the throttle check, or the chart drawing.
CallFailure ==
    /\ IsDetect
    /\ call.frame # None
    /\ \/ ~CanConvert(call.frame)
       \/ call.det.kind = "raises"
       \/ \E i \in 1..Len(call.det.boxes) : call.det.boxes[i].malformed
       \/ call.ret.path = "except"
       \/ call.ret.renders > 0 /\ call.rnd # "ok"

C7_ResetEmptiesTallies ==
    IsReset =>
        /\ Post # None
        /\ TotalOf(Post) = Counter
        /\ CurrentOf(Post) = Counter

\* A reset of a session that has tallies, after the counter has advanced.
C7_Witness ==
    /\ IsReset
    /\ TotalOf(call.pre) # Counter
    /\ CurrentOf(call.pre) # Counter
    /\ call.pre_counter > 0

\* An image of generate_stats_chart whose two panels show the placeholders.
IsEmptyStateChart(chart) ==
    /\ chart.kind = "chart"
    /\ chart.left.placeholder
    /\ chart.right.placeholder

\* C8 as stated: the state reset returns caches no chart, and its second
\* output is a freshly rendered empty-state chart (the drawing succeeding).
C8_ResetCachesNoChart ==
    (IsReset /\ call.rnd = "ok") =>
        /\ CachedChart(Post) = None
        /\ IsEmptyStateChart(call.ret.chart)

\* C8 amended: the state reset returns caches the very chart reset returns
\* as its second output: the freshly rendered empty-state chart when the
\* drawing succeeds, the error placeholder when the drawing fails inside
\* generate_stats_chart, and no chart only when generate_stats_chart itself
\* raises, the second output being absent then too.
C8_ResetCachesItsChart ==
    IsReset =>
        /\ CachedChart(Post) = call.ret.chart
        /\ call.rnd = "ok" => IsEmptyStateChart(call.ret.chart)
        /\ call.rnd = "draw_raises" => call.ret.chart = ChartError
        /\ call.rnd = "placeholder_raises" => call.ret.chart = None

\* A reset whose drawing succeeds, on a session that cached a chart with
\* bars.
C8_Witness ==
    /\ IsReset
    /\ call.rnd = "ok"
    /\ CachedChart(call.pre) # None
    /\ CachedChart(call.pre).kind = "chart"
    /\ ~IsEmptyStateChart(CachedChart(call.pre))
    /\ IsEmptyStateChart(CachedChart(Post))

\* C9: a session that starts fresh and is fed 11 frames with one "dog" each
\* has rendered on its frames 1, 5 and 10, three times, and its cumulative
\* tally is {"dog": 11}.
C9_RendersOnFrames_1_5_10 ==
    \A s \in Sessions :
        fed[s] = 11 =>
            /\ rendered_on[s] = {1, 5, 10}
            /\ Cardinality(rendered_on[s]) = 3
            /\ TotalOf(stats_state[s]) = <<<<"dog", 11>>>>

\* C10: what a session's call returns, the state it leaves and the frames
\* on which the session renders are what they are when the session is the
\* only one the process serves.
C10_SessionsIndependent ==
    (IsDetect \/ IsReset) =>
        /\ call.ret = call.alone_ret
        /\ Post = alone[call.session].state
        /\ rendered_on[call.session] = alone[call.session].rendered_on

\* C11: in every session, no handler call other than a reset of that
\* session lowers the count of any category in the cumulative tally,
\* whatever the call's outcome.
C11_TotalNeverDropsWithoutReset ==
    [][\A s \in Sessions :
          \/ call'.fn = "reset_stats" /\ call'.session = s
          \/ \A l \in Labels :
                Get(TotalOf(stats_state'[s]), l) >= Get(TotalOf(stats_state[s]), l)]_vars

\* A frame with two categories merged into a tally that already holds both,
\* on a call that left through the outer except.
C11_Witness ==
    /\ CallDetected
    /\ call.ret.path = "except"
    /\ Get(TotalOf(call.pre), "person") >= 2
    /\ Get(TotalOf(call.pre), "dog") >= 1
    /\ Get(TotalOf(Post), "person") > Get(TotalOf(call.pre), "person")
    /\ Get(TotalOf(Post), "dog") > Get(TotalOf(call.pre), "dog")

\* C12: a yolo_detect call whose render succeeds leaves a chart cached, and
\* no handler call other than a reset of the session turns a cached chart
\* back into None.
C12_CacheStaysUntilReset ==
    [][/\ (call'.fn = "yolo_detect" /\ call'.ret.renders = 1 /\ call'.rnd = "ok")
            => CachedChart(stats_state'[call'.session]) # None
       /\ \A s \in Sessions :
            \/ call'.fn = "reset_stats" /\ call'.session = s
            \/ CachedChart(stats_state[s]) = None
            \/ CachedChart(stats_state'[s]) # None]_vars

\* generate_stats_chart raises on a due frame of a session that has a
\* rendered chart cached, and the chart is still cached afterwards.
C12_Witness ==
    /\ CallDetected
    /\ call.ret.path = "render_except"
    /\ CachedChart(call.pre) # None
    /\ CachedChart(call.pre).kind = "chart"
    /\ CachedChart(Post) = CachedChart(call.pre)

\* C13: when the drawing fails on a detected frame where a render is due,
\* the cached chart is left as it was and is the chart output, or, no chart
\* being cached, the chart output is the annotated frame; the frame's tally
\* is merged all the same.
C13_RenderFailureFallsBack ==
    (CallDetected /\ call.ret.renders = 1 /\ call.rnd # "ok") =>
        /\ CachedChart(Post) = CachedChart(call.pre)
        /\ call.ret.chart = (IF CachedChart(call.pre) # None
                             THEN CachedChart(call.pre)
                             ELSE AnnotatedFrame(call.frame, call.det))
        /\ \A l \in Labels :
              Get(TotalOf(Post), l) = Get(TotalOf(call.pre), l) + Get(CurrentOf(Post), l)

\* C14 as stated: whenever the drawing fails during a reset, reset returns
\* the empty state with no cached chart and an absent chart, and does not
\* raise.
C14_ResetFailureReturnsNoChart ==
    (IsReset /\ call.rnd # "ok") =>
        /\ ~call.ret.raised
        /\ Post = EmptyState
        /\ call.ret.chart = None

\* C14 amended: whenever the drawing fails during a reset, reset does not
\* raise and returns a state with empty tallies; when generate_stats_chart
\* absorbs the failure, the state caches the "Chart Error" placeholder and
\* the second output is that placeholder; when generate_stats_chart raises,
\* the state caches no chart and the second output is absent.
C14_ResetSurvivesRenderFailure ==
    (IsReset /\ call.rnd # "ok") =>
        /\ ~call.ret.raised
        /\ TotalOf(Post) = Counter
        /\ CurrentOf(Post) = Counter
        /\ call.rnd = "draw_raises" =>
              /\ call.ret.chart = ChartError
              /\ CachedChart(Post) = ChartError
        /\ call.rnd = "placeholder_raises" =>
              /\ call.ret.chart = None
              /\ Post = EmptyState

\* generate_stats_chart raises during the reset of a session that has
\* tallies and a cached chart.
C14_Witness ==
    /\ IsReset
    /\ call.rnd = "placeholder_raises"
    /\ TotalOf(call.pre) # Counter
    /\ CachedChart(call.pre) # None
    /\ Post = EmptyState
    /\ call.ret.chart = None

\* The number of boxes of a detector result that can be read and carry the
\* label.
ReadableBoxes(det, label) ==
    Cardinality({i \in 1..Len(det.boxes) :
                    det.boxes[i].label = label /\ ~det.boxes[i].malformed})

\* C16: on a detected frame, the frame tally counts, for every category,
\* exactly the boxes of that category that can be read, wherever the
\* unreadable boxes stand in the list; the call does not raise, merges the
\* frame tally into the cumulative tally and advances _frame_counter.
C16_MalformedBoxSkipped ==
    CallDetected =>
        /\ \A l \in Labels : Get(CurrentOf(Post), l) = ReadableBoxes(call.det, l)
        /\ \A i \in 1..Len(CurrentOf(Post)) : CurrentOf(Post)[i][2] > 0
        /\ ~call.ret.raised
        /\ \A l \in Labels :
              Get(TotalOf(Post), l) = Get(TotalOf(call.pre), l) + ReadableBoxes(call.det, l)
        /\ _frame_counter = call.pre_counter + 1

\* A frame whose second box cannot be read, between boxes that can, with a
\* readable box of the same category after it.
C16_Witness ==
    /\ CallDetected
    /\ call.det = Results(MixedBoxes)
    /\ MixedBoxes[2].malformed
    /\ CurrentOf(Post) = <<<<"person", 2>>, <<"dog", 1>>>>
    /\ call.ret.path = "rendered"

\* C18: on every detected frame, the first output is the annotated frame.
C18_DetectedFrameReturnedAnnotated ==
    CallDetected => call.ret.frame = AnnotatedFrame(call.frame, call.det)

\* The states reset_stats can return.
ResetStates == {reset_stats(rnd).state : rnd \in RenderOutcomes}

\* The last call is the first detected frame of a session since its reset.
FirstDetectedAfterReset ==
    /\ CallDetected
    /\ fed[call.session] = 1
    /\ call.pre \in ResetStates

\* C19 as stated: the first detected frame after a reset invokes
\* generate_stats_chart whatever the counter, and the chart it returns is
\* drawn from that frame's tallies (the drawing succeeding).
C19_FirstFrameAfterResetRenders ==
    FirstDetectedAfterReset =>
        /\ call.ret.renders = 1
        /\ call.rnd = "ok" =>
              call.ret.chart = RenderedChart(CurrentOf(Post), TotalOf(Post))

\* C19 amended: the first detected frame after a reset invokes
\* generate_stats_chart exactly when the advanced counter is a multiple of 5
\* or the reset cached no chart; a successful render is drawn from that
\* frame's tallies; otherwise the call returns the chart the reset cached
\* and leaves it cached, although the tallies already hold the frame.
C19_FirstFrameAfterResetRendersWhenDue ==
    FirstDetectedAfterReset =>
        /\ call.ret.renders = (IF RenderDue THEN 1 ELSE 0)
        /\ (call.ret.renders = 1 /\ call.rnd = "ok") =>
              /\ call.ret.chart = RenderedChart(CurrentOf(Post), TotalOf(Post))
              /\ CachedChart(Post) = call.ret.chart
        /\ call.ret.renders = 0 =>
              /\ call.ret.chart = CachedChart(call.pre)
              /\ CachedChart(Post) = CachedChart(call.pre)
              /\ CachedChart(call.pre) \in {RenderedChart(Counter, Counter), ChartError}
        /\ TotalOf(Post) = CurrentOf(Post)

\* A frame with boxes right after a reset that drew the empty chart: no
\* render, and the chart returned is the empty chart.
C19_Witness ==
    /\ FirstDetectedAfterReset
    /\ call.ret.renders = 0
    /\ IsEmptyStateChart(call.ret.chart)
    /\ CurrentOf(Post) # Counter
    /\ call.pre_counter > 0

\* C20: in a process that serves one session, the counter is never more
\* than 4 detected frames past its value at the last generate_stats_chart
\* call of yolo_detect, and a call whose frame is absent, does not convert
\* or fails in the detector leaves the counter where it was.
C20_RenderWithinFiveFrames ==
    [][\A s \in Sessions :
          /\ alone'[s].counter - alone'[s].last_render <= _chart_update_interval - 1
          /\ (call'.fn = "yolo_detect" /\ call'.session = s
                /\ ~Detected(call'.frame, call'.det))
                => /\ alone'[s].counter = alone[s].counter
                   /\ alone'[s].last_render = alone[s].last_render]_vars

\* A session that was reset before its first frame: four detected frames
\* without a render, then the render of the fifth.
C20_Witness ==
    \E s \in Driven :
        /\ call.session = s
        /\ CallDetected
        /\ alone[s].counter = _chart_update_interval
        /\ alone[s].last_render = _chart_update_interval
        /\ alone[s].rendered_on = {_chart_update_interval}
        /\ fed[s] = _chart_update_interval

\* The sum of the counts of a tally, and the place of a category in it.
TallySum(total) ==
    LET S[i \in 0..Len(total)] == IF i = 0 THEN 0 ELSE S[i - 1] + total[i][2]
    IN  S[Len(total)]
PlaceOf(total, label) == CHOOSE i \in 1..Len(total) : total[i][1] = label

\* Whether item a of a tally ranks before item b: a higher count, or the
\* same count and seen first.
RanksBefore(total, a, b) ==
    \/ a[2] > b[2]
    \/ a[2] = b[2] /\ PlaceOf(total, a[1]) < PlaceOf(total, b[1])

\* C15: for a tally of n categories, the cumulative panel shows min(n, 10)
\* bars, each an item of the tally, in descending order of count with equal
\* counts in insertion order; every category left out ranks after every
\* category shown; and the total of the title is the sum over all n.
C15_TopTenOfCumulative ==
    call.fn = "generate_stats_chart" =>
        LET total == call.pre.total
            n == Len(total)
            panel == call.ret.chart.right
            shown == {panel.bars[j][1] : j \in 1..Len(panel.bars)}
        IN  /\ ~call.ret.raised
            /\ panel.placeholder = (n = 0)
            /\ Len(panel.bars) = (IF n < TopN THEN n ELSE TopN)
            /\ \A j \in 1..Len(panel.bars) : \E i \in 1..n : total[i] = panel.bars[j]
            /\ \A j, k \in 1..Len(panel.bars) :
                  j < k => RanksBefore(total, panel.bars[j], panel.bars[k])
            /\ \A i \in 1..n :
                  total[i][1] \notin shown =>
                     \A j \in 1..Len(panel.bars) : RanksBefore(total, panel.bars[j], total[i])
            /\ panel.total = TallySum(total)

\* Twelve categories, seen with lower counts first, with equal counts on
\* both sides of the cut after the tenth bar.
C15_Witness ==
    /\ call.fn = "generate_stats_chart"
    /\ Len(call.pre.total) = 12
    /\ Len(call.ret.chart.right.bars) = TopN
    /\ call.pre.total[1][2] = 1
    /\ call.pre.total[12][2] = 2
    /\ call.ret.chart.right.bars[1] = call.pre.total[2]
    /\ call.ret.chart.right.bars[TopN][2] = 1
    /\ call.ret.chart.right.total > TallySum(call.ret.chart.right.bars)

\* The categories of a tally.
KeysOf(total) == {total[i][1] : i \in 1..Len(total)}

\* C17: the same detected frames streamed from the same state in two
\* orders leave the same cumulative tally: the same categories with the
\* same counts.
C17_MergeOrderIndependent ==
    call.fn = "stream" =>
        /\ KeysOf(TotalOf(call.in_order)) = KeysOf(TotalOf(call.permuted))
        /\ \A l \in Labels :
              Get(TotalOf(call.in_order), l) = Get(TotalOf(call.permuted), l)

\* Three frames with different tallies streamed in reverse order: the two
\* cumulative tallies list their categories in different orders.
C17_Witness ==
    /\ call.fn = "stream"
    /\ Len(call.frames) = 3
    /\ call.order = <<3, 2, 1>>
    /\ call.frames[1] = Results(TwoDogs)
    /\ call.frames[3] = Results(MixedBoxes)
    /\ TotalOf(call.pre) = Counter
    /\ TotalOf(call.in_order) # TotalOf(call.permuted)
    /\ Get(TotalOf(call.in_order), "dog") >= 3
====
